---- MODULE Spec2Model ----
(***************************************************************************)
(* Exercise tracker REST service (src/server.js).                          *)
(*                                                                         *)
(* The file holds three variants of the same server (lines 1-212, 214-420  *)
(* and 422-625).  They differ in one place only: the answer of             *)
(* POST /api/users to a missing username (line 85 against lines 292, 490). *)
(* The variable `variant` says which of them is deployed.                  *)
(*                                                                         *)
(* Every handler is an async function: it runs synchronously up to an      *)
(* `await` of a store call, and other handlers run in between.  A request  *)
(* in flight is a slot of `reqs`; one action models the code between two   *)
(* awaits, the store call that ends the await included.  `out` is the      *)
(* response the last step wrote, with the request it answers, if that step *)
(* wrote one.  `added` lists the add-exercise requests that succeeded.     *)
(*                                                                         *)
(* Time is counted in ticks, TicksPerDay of them a day, tick 0 being       *)
(* midnight UTC of day 0.                                                  *)
(***************************************************************************)
EXTENDS Integers, Sequences, FiniteSets, TLC

\* Bounds of the model.
MaxUsers == 2
MaxExercises == 2
MaxInFlight == 2
MaxDay == 3
TicksPerDay == 2

VARIABLES variant, tz, users, exercises, reqs, out, added

vars == <<variant, tz, users, exercises, reqs, out, added>>

Slots == 1..MaxInFlight

Variants == {1, 2, 3}

\* Offsets of the server's local time from UTC, in ticks (at most half a day).
TzOffsets == {-1, 0, 1}

(***************************************************************************)
(* Values of a request's fields.  A field of req.body is absent, a text    *)
(* (a sequence of characters) or, in a JSON body, a number; a field of     *)
(* req.query is absent or a text.                                          *)
(***************************************************************************)
Absent == [t |-> "absent", s |-> <<>>, n |-> 0]

Txt(s) == [t |-> "text", s |-> s, n |-> 0]

Num(n) == [t |-> "num", s |-> <<>>, n |-> n]

\* JavaScript's truthiness, as `!username`, `!description`, `!duration`,
\* `date ? :`, `if (from)` and `limitNum || 0` use it.
Truthy(v) ==
    \/ v.t = "text" /\ v.s # <<>>
    \/ v.t = "num" /\ v.n # 0

DigitVal ==
    ("0" :> 0) @@ ("1" :> 1) @@ ("2" :> 2) @@ ("3" :> 3) @@ ("4" :> 4) @@
    ("5" :> 5) @@ ("6" :> 6) @@ ("7" :> 7) @@ ("8" :> 8) @@ ("9" :> 9)

DigitChar == <<"0", "1", "2", "3", "4", "5", "6", "7", "8", "9">>

RECURSIVE NatToText(_)
NatToText(n) ==
    IF n < 10 THEN <<DigitChar[n + 1]>>
    ELSE Append(NatToText(n \div 10), DigitChar[(n % 10) + 1])

\* String(n) of an integer n.
NumToText(n) == IF n < 0 THEN <<"-">> \o NatToText(-n) ELSE NatToText(n)

\* String(v), which parseInt applies to its argument first.
ToText(v) ==
    CASE v.t = "text" -> v.s
      [] v.t = "num" -> NumToText(v.n)
      [] OTHER -> <<"u", "n", "d", "e", "f", "i", "n", "e", "d">>

RECURSIVE SkipSpaces(_)
SkipSpaces(s) ==
    IF s # <<>> /\ Head(s) = " " THEN SkipSpaces(Tail(s)) ELSE s

RECURSIVE ReadDigits(_, _, _)
ReadDigits(s, acc, seen) ==
    IF s # <<>> /\ Head(s) \in DOMAIN DigitVal
    THEN ReadDigits(Tail(s), acc * 10 + DigitVal[Head(s)], TRUE)
    ELSE [ok |-> seen, val |-> acc]

\* parseInt(v): leading blanks are skipped, then an optional sign and the
\* longest run of decimal digits are read; with no digit the result is NaN
\* (ok = FALSE).  What follows the digits is ignored.
ParseInt(v) ==
    LET t == SkipSpaces(ToText(v))
        signed == t # <<>> /\ Head(t) \in {"-", "+"}
        r == ReadDigits(IF signed THEN Tail(t) ELSE t, 0, FALSE)
    IN  [ok |-> r.ok,
         val |-> IF signed /\ Head(t) = "-" THEN 0 - r.val ELSE r.val]

\* isNaN(parseInt(v))
IsNaN(p) == ~p.ok

(***************************************************************************)
(* Dates.  A date text is empty, a calendar day yyyy-mm-dd (day d) or a    *)
(* text that is no date.  A Date object is an instant in ticks or the      *)
(* Invalid Date.                                                           *)
(***************************************************************************)
NoDate == [t |-> "absent", d |-> 0]

EmptyDate == [t |-> "empty", d |-> 0]

DayText(d) == [t |-> "day", d |-> d]

BadDate == [t |-> "bad", d |-> 0]

DateTruthy(v) == v.t \in {"day", "bad"}

InvalidDate == [valid |-> FALSE, ms |-> 0]

Instant(ms) == [valid |-> TRUE, ms |-> ms]

\* new Date(text): a date-only ISO text is midnight UTC of that day.
NewDate(v) == IF v.t = "day" THEN Instant(v.d * TicksPerDay) ELSE InvalidDate

\* The calendar day of an instant in the server's local time.
LocalDay(ms, offset) == (ms + offset) \div TicksPerDay

\* Date.prototype.toDateString(): the local calendar day, as
\* "Www Mmm dd yyyy"; the text carries no time and no zone.
ToDateString(date, offset) == [day |-> LocalDay(date.ms, offset)]

\* new Date("Www Mmm dd yyyy"): a text that is not ISO is read as local
\* time, so it is local midnight of that day.
ParseDateString(str, offset) == Instant(str.day * TicksPerDay - offset)

(***************************************************************************)
(* Identifiers.  The store assigns ObjectIds 1, 2, ...; the text of an id  *)
(* in a URL is its hexadecimal spelling in lower case or in upper case, or *)
(* a text that is no ObjectId.                                             *)
(***************************************************************************)
IdText(kind, n) == [kind |-> kind, n |-> n]

BadId == IdText("bad", 0)

\* ObjectId.prototype.toString(): always lower case.
ToHexString(oid) == IdText("lower", oid)

\* Mongoose's cast of a text to an ObjectId; hexadecimal digits of either
\* case are accepted, anything else is a CastError (ok = FALSE).
CastObjectId(id) == [ok |-> id.kind # "bad", oid |-> id.n]

NoUser == [_id |-> 0, username |-> <<>>]

\* User.findById(id) once the id is cast: the document or null (NoUser).
FindById(oid) ==
    IF \E i \in 1..Len(users) : users[i]._id = oid
    THEN users[CHOOSE i \in 1..Len(users) : users[i]._id = oid]
    ELSE NoUser

Idle == [op |-> "none", pc |-> "idle", req |-> [x |-> 0], user |-> NoUser,
         loc |-> [x |-> 0]]

NoOut == [op |-> "none", req |-> [x |-> 0], res |-> [status |-> 0]]

Init ==
    /\ variant \in Variants
    /\ tz \in TzOffsets
    /\ users = <<>>
    /\ exercises = <<>>
    /\ added = <<>>
    /\ reqs = [s \in Slots |-> Idle]
    /\ out = NoOut

\* The handler of the request in slot s is at pc, and no response is waiting
\* to be taken.
At(s, op, pc) == out = NoOut /\ reqs[s].op = op /\ reqs[s].pc = pc

\* A step that ends at the next await: the request r waits in its slot.
Await(s, r) ==
    /\ reqs' = [reqs EXCEPT ![s] = r]
    /\ out' = NoOut

\* res.status(..).json(..) or res.send(..), which ends the handler.
Respond(s, r, res) ==
    /\ reqs' = [reqs EXCEPT ![s] = Idle]
    /\ out' = [op |-> r.op, req |-> r.req, res |-> res]

\* An await whose promise rejects outside any try block: the async handler's
\* promise rejects and nobody handles it.  Express 4 ignores the promise, so
\* no response is ever written; Express 5 passes the error to its default
\* error handler, which answers 500.
UnhandledRejection(s, r, cause) ==
    \/ Await(s, [r EXCEPT !.pc = "rejected", !.loc = [cause |-> cause]])
    \/ Respond(s, r, [status |-> 500, by |-> "framework", cause |-> cause])

\* The catch blocks: res.status(500).json(..).
Caught(s, r, cause) ==
    Respond(s, r, [status |-> 500, by |-> "handler", cause |-> cause])

\* The check of the user left out: every lookup counts as a success.
FoundUnchecked(user) == TRUE

\* `if (!user)` of lines 123 and 165, negated: findById gave a document.
Found(user) == user # NoUser

(***************************************************************************)
(* The inputs the requests are drawn from.  A profile names the set each   *)
(* field of a request is drawn from.                                       *)
(***************************************************************************)
AllIds ==
    {BadId} \cup {IdText(k, n) : k \in {"lower", "upper"}, n \in 1..(MaxUsers + 1)}

AllDates == {NoDate, EmptyDate, BadDate} \cup {DayText(d) : d \in 1..MaxDay}

\* Midnight and a later tick of day d: the instants `new Date()` may return.
Midnight(d) == d * TicksPerDay

\* Requests that run concurrently: each spelling of the first user's id and
\* a text that is no id, a valid body, no filter.
FewInputs ==
    [usernames |-> {Txt(<<"a">>)},
     ids |-> {BadId, IdText("lower", 1), IdText("upper", 1)},
     descriptions |-> {Txt(<<"r">>)},
     durations |-> {Txt(<<"3", "0">>)},
     dates |-> {NoDate},
     clock |-> {Midnight(2) + 1},
     bounds |-> {NoDate},
     limits |-> {Absent}]

\* Every kind of date, bound and limit: for the dates and the log listing.
LogInputs ==
    [usernames |-> {Txt(<<"a">>)},
     ids |-> {IdText("lower", 1), IdText("upper", 1), IdText("lower", 2)},
     descriptions |-> {Txt(<<"r">>)},
     durations |-> {Txt(<<"3", "0">>)},
     dates |-> {NoDate} \cup {DayText(d) : d \in 1..MaxDay},
     clock |-> {Midnight(2) + 1},
     bounds |-> AllDates,
     limits |-> {Absent, Txt(<<"0">>), Txt(<<"1">>), Txt(<<"-", "1">>), Txt(<<"x">>)}]

\* Every kind of username, description and duration: for the validation.
BodyInputs ==
    [usernames |-> {Absent, Txt(<<>>), Txt(<<"a">>)},
     ids |-> {IdText("lower", 1)},
     descriptions |-> {Absent, Txt(<<>>), Txt(<<"r">>), Num(0), Num(4)},
     durations |-> {Absent, Txt(<<>>), Txt(<<"0">>), Txt(<<"-", "5">>),
                    Txt(<<" ", "8">>), Txt(<<"x">>), Txt(<<"7", "k">>),
                    Txt(<<"-">>), Num(0), Num(-5)},
     dates |-> {NoDate},
     clock |-> {Midnight(2)},
     bounds |-> {NoDate},
     limits |-> {Absent}]

Pending(op, pcs) == Cardinality({s \in Slots : reqs[s].op = op /\ reqs[s].pc \in pcs})

(***************************************************************************)
(* GET /api/users                                                          *)
(***************************************************************************)
ReceiveListUsers(s) ==
    /\ At(s, "none", "idle")
    /\ Await(s, [Idle EXCEPT !.op = "listUsers", !.pc = "find"])
    /\ UNCHANGED <<variant, tz, users, exercises, added>>

\* User.find({}).select("_id username") resolves or rejects.
ListUsersFind(s) ==
    LET r == reqs[s] IN
    /\ At(s, "listUsers", "find")
    /\ \/ Respond(s, r, [status |-> 200, users |-> users])
       \/ Caught(s, r, "store")
    /\ UNCHANGED <<variant, tz, users, exercises, added>>

(***************************************************************************)
(* POST /api/users                                                         *)
(***************************************************************************)
\* The answer to a missing username: res.json (200) in variant 1,
\* res.status(400).json in variants 2 and 3.
MissingUsernameStatus(v) == IF v = 1 THEN 200 ELSE 400

ReceiveCreateUser(s, in) ==
    /\ At(s, "none", "idle")
    /\ \E username \in in.usernames :
        LET r == [Idle EXCEPT !.op = "createUser", !.req = [username |-> username]] IN
        /\ IF ~Truthy(username)
           THEN Respond(s, r, [status |-> MissingUsernameStatus(variant),
                               error |-> TRUE])
           ELSE /\ Len(users) + Pending("createUser", {"save"}) < MaxUsers
                /\ Await(s, [r EXCEPT !.pc = "save"])
        /\ UNCHANGED <<variant, tz, users, exercises, added>>

\* userObj.save() resolves, with the document stored under a fresh _id, or
\* rejects.
CreateUserSave(s) ==
    LET r == reqs[s]
        user == [_id |-> Len(users) + 1, username |-> r.req.username.s]
    IN
    /\ At(s, "createUser", "save")
    /\ \/ /\ users' = Append(users, user)
          /\ Respond(s, r, [status |-> 200, username |-> user.username,
                             _id |-> user._id])
       \/ /\ Caught(s, r, "store")
          /\ UNCHANGED users
    /\ UNCHANGED <<variant, tz, exercises, added>>

(***************************************************************************)
(* POST /api/users/:_id/exercises                                          *)
(***************************************************************************)
\* The validation without its isNaN check.
ValidateWithoutIsNaN(description, duration) ==
    IF ~Truthy(description) \/ ~Truthy(duration) THEN "missing" ELSE "ok"

\* The validation of lines 112-119: "missing", "nan" or "ok".
Validate(description, duration) ==
    IF ~Truthy(description) \/ ~Truthy(duration) THEN "missing"
    ELSE IF IsNaN(ParseInt(duration)) THEN "nan"
    ELSE "ok"

ReceiveAddExercise(s, in) ==
    /\ At(s, "none", "idle")
    /\ \E id \in in.ids, description \in in.descriptions,
       duration \in in.durations, date \in in.dates :
        LET r == [Idle EXCEPT !.op = "addExercise",
                              !.req = [id |-> id, description |-> description,
                                       duration |-> duration, date |-> date]]
            verdict == Validate(description, duration)
        IN
        /\ IF verdict # "ok"
           THEN Respond(s, r, [status |-> 400, error |-> verdict])
           ELSE /\ Len(exercises) + Pending("addExercise", {"findById", "save"})
                       < MaxExercises
                /\ Await(s, [r EXCEPT
                       !.pc = "findById",
                       !.loc = [durationNum |-> ParseInt(duration).val]])
        /\ UNCHANGED <<variant, tz, users, exercises, added>>

\* new Exercise({...}): user_id is cast to a String (the ObjectId's
\* toString), description to a String, and the date is `new Date(date)`
\* when date is truthy, the current time otherwise.
NewExercise(user, description, durationNum, date, now) ==
    [user_id |-> ToHexString(user._id),
     description |-> ToText(description),
     duration |-> durationNum,
     date |-> IF DateTruthy(date) THEN NewDate(date) ELSE Instant(now)]

\* User.findById(id) resolves, or rejects inside the try block: the id is no
\* ObjectId (a CastError, before the store is asked) or the store failed.
\* With a user the handler builds the Exercise and calls save().
AddExerciseFindById(s, in) ==
    LET r == reqs[s]
        cast == CastObjectId(r.req.id)
        user == FindById(cast.oid)
    IN
    /\ At(s, "addExercise", "findById")
    /\ \/ Caught(s, r, IF cast.ok THEN "store" ELSE "cast")
       \/ /\ cast.ok
          /\ IF ~Found(user)
             THEN Respond(s, r, [status |-> 404])
             ELSE \E now \in in.clock :
                    Await(s, [r EXCEPT
                        !.pc = "save",
                        !.user = user,
                        !.loc = [obj |-> NewExercise(user, r.req.description,
                                     r.loc.durationNum, r.req.date, now)]])
    /\ UNCHANGED <<variant, tz, users, exercises, added>>

\* The answer of add-exercise (lines 138-145).
ExerciseBody(user, exercise, offset) ==
    [status |-> 200,
     username |-> user.username,
     description |-> exercise.description,
     duration |-> exercise.duration,
     date |-> ToDateString(exercise.date, offset),
     _id |-> user._id]

\* exerciseObj.save() resolves with the document stored, or rejects: the
\* document's date is the Invalid Date, which Mongoose does not cast (a
\* validation error, before the store is asked), or the store failed.
AddExerciseSave(s) ==
    LET r == reqs[s]
        obj == r.loc.obj
    IN
    /\ At(s, "addExercise", "save")
    /\ \/ /\ obj.date.valid
          /\ exercises' = Append(exercises, [obj EXCEPT !.date = obj.date.ms])
          /\ added' = Append(added, [user |-> r.user._id,
                                     description |-> r.req.description,
                                     duration |-> obj.duration,
                                     duration_in |-> r.req.duration,
                                     day |-> r.req.date,
                                     date |-> obj.date.ms])
          /\ Respond(s, r, ExerciseBody(r.user, obj, tz))
       \/ /\ Caught(s, r, IF obj.date.valid THEN "store" ELSE "validation")
          /\ UNCHANGED <<exercises, added>>
    /\ UNCHANGED <<variant, tz, users>>

(***************************************************************************)
(* GET /api/users/:_id/logs                                                *)
(***************************************************************************)
ReceiveGetLogs(s, in) ==
    /\ At(s, "none", "idle")
    /\ \E id \in in.ids, from \in in.bounds, to \in in.bounds,
       limit \in in.limits :
        /\ Await(s, [Idle EXCEPT
               !.op = "getLogs", !.pc = "findById",
               !.req = [id |-> id, from |-> from, to |-> to, limit |-> limit]])
        /\ UNCHANGED <<variant, tz, users, exercises, added>>

\* The filter of lines 169-182: user_id is the text of the URL; date is set
\* when from or to is truthy, each bound being `new Date(..)` of its text.
BuildFilter(id, from, to) ==
    [user_id |-> id,
     hasDate |-> DateTruthy(from) \/ DateTruthy(to),
     hasGte |-> DateTruthy(from),
     gte |-> NewDate(from),
     hasLte |-> DateTruthy(to),
     lte |-> NewDate(to)]

\* limitNum || 0 of line 187: NaN and 0 both give 0.
LimitArg(limit) ==
    LET p == ParseInt(limit) IN IF IsNaN(p) \/ p.val = 0 THEN 0 ELSE p.val

\* User.findById(id) resolves, or rejects (a CastError or a failure of the
\* store) outside any try block; with a user the handler builds the filter
\* and calls Exercise.find.
GetLogsFindById(s) ==
    LET r == reqs[s]
        cast == CastObjectId(r.req.id)
        user == FindById(cast.oid)
    IN
    /\ At(s, "getLogs", "findById")
    /\ \/ UnhandledRejection(s, r, IF cast.ok THEN "store" ELSE "cast")
       \/ /\ cast.ok
          /\ IF ~Found(user)
             THEN Respond(s, r, [status |-> 404])
             ELSE Await(s, [r EXCEPT
                      !.pc = "find",
                      !.user = user,
                      !.loc = [filter |-> BuildFilter(r.req.id, r.req.from, r.req.to),
                               limit |-> LimitArg(r.req.limit)]])
    /\ UNCHANGED <<variant, tz, users, exercises, added>>

\* Mongoose casts the filter when the query runs: a bound that is the
\* Invalid Date is a CastError.
FilterCasts(filter) ==
    /\ filter.hasGte => filter.gte.valid
    /\ filter.hasLte => filter.lte.valid

\* Whether a stored exercise matches the filter.
Matches(e, filter) ==
    /\ e.user_id = filter.user_id
    /\ filter.hasDate /\ filter.hasGte => e.date >= filter.gte.ms
    /\ filter.hasDate /\ filter.hasLte => e.date <= filter.lte.ms

\* cursor.limit(n): 0 is no limit, and a negative n stands for -n.
Limited(seq, n) ==
    LET k == IF n < 0 THEN 0 - n ELSE n IN
    IF k = 0 \/ k >= Len(seq) THEN seq ELSE SubSeq(seq, 1, k)

\* Exercise.find(filter).limit(n): the matching documents in stored order.
Find(filter, n) ==
    Limited(SelectSeq(exercises, LAMBDA e : Matches(e, filter)), n)

\* The answer of the log listing (lines 190-202).
LogBody(user, found, offset) ==
    [status |-> 200,
     username |-> user.username,
     count |-> Len(found),
     _id |-> ToHexString(user._id),
     log |-> [i \in 1..Len(found) |->
                 [description |-> found[i].description,
                  duration |-> found[i].duration,
                  date |-> ToDateString(Instant(found[i].date), offset)]]]

\* Exercise.find(..).limit(..) resolves, or rejects (a CastError or a failure
\* of the store) outside any try block.
GetLogsFind(s) ==
    LET r == reqs[s] IN
    /\ At(s, "getLogs", "find")
    /\ \/ UnhandledRejection(s, r,
              IF FilterCasts(r.loc.filter) THEN "store" ELSE "cast")
       \/ /\ FilterCasts(r.loc.filter)
          /\ Respond(s, r, LogBody(r.user, Find(r.loc.filter, r.loc.limit), tz))
    /\ UNCHANGED <<variant, tz, users, exercises, added>>

\* A request that never gets a response ends when the client gives up.
ClientTimeout(s) ==
    /\ out = NoOut
    /\ reqs[s].pc = "rejected"
    /\ Await(s, Idle)
    /\ UNCHANGED <<variant, tz, users, exercises, added>>

\* The client takes the response the last step wrote.
Deliver ==
    /\ out # NoOut
    /\ out' = NoOut
    /\ UNCHANGED <<variant, tz, users, exercises, reqs, added>>

\* The steps of the requests of the slots S, drawn from the profile in.  A
\* response is on its way before the next step of any handler runs.
Step(S, in) ==
    \/ Deliver
    \/ \E s \in S :
        \/ ReceiveListUsers(s)
        \/ ListUsersFind(s)
        \/ ReceiveCreateUser(s, in)
        \/ CreateUserSave(s)
        \/ ReceiveAddExercise(s, in)
        \/ AddExerciseFindById(s, in)
        \/ AddExerciseSave(s)
        \/ ReceiveGetLogs(s, in)
        \/ GetLogsFindById(s)
        \/ GetLogsFind(s)
        \/ ClientTimeout(s)

\* Requests handled concurrently.
Next == Step(Slots, FewInputs)

Spec == Init /\ [][Next]_vars

\* One request at a time.
NextLogs == Step({1}, LogInputs)

SpecLogs == Init /\ [][NextLogs]_vars

NextBody == Step({1}, BodyInputs)

SpecBody == Init /\ [][NextBody]_vars

(***************************************************************************)
(* What the properties below speak of.                                     *)
(***************************************************************************)
\* The last step answered a request of kind op.
Answered(op) == out.op = op

\* The last step answered a request of kind op with this status.
AnsweredWith(op, status) == out.op = op /\ out.res.status = status

\* The response reports a failure of the store itself.
StoreFailed(res) == res.status = 500 /\ res.cause = "store"

\* The text of an id names a stored user.
NamesUser(id) == CastObjectId(id).ok /\ FindById(CastObjectId(id).oid) # NoUser

\* A value is absent or the empty text.
AbsentOrEmpty(v) == v.t = "absent" \/ (v.t = "text" /\ v.s = <<>>)

\* The add-exercise requests that succeeded for the user with ObjectId oid.
AddedFor(oid) == SelectSeq(added, LAMBDA a : a.user = oid)

\* The log entry of a succeeded add-exercise request.
EntryOf(a) ==
    [description |-> ToText(a.description),
     duration |-> a.duration,
     date |-> ToDateString(Instant(a.date), tz)]

EntriesOf(seq) == [i \in 1..Len(seq) |-> EntryOf(seq[i])]

\* A bound of the log listing is absent or a calendar day.
Parseable(bound) == bound.t \in {"absent", "day"}

\* An instant lies within the bounds, each inclusive when it is a day.
Within(ms, from, to) ==
    /\ from.t = "day" => Midnight(from.d) <= ms
    /\ to.t = "day" => ms <= Midnight(to.d)

Min(a, b) == IF a <= b THEN a ELSE b

Max(a, b) == IF a >= b THEN a ELSE b

(***************************************************************************)
(* C1: a POST /api/users whose username is missing or empty is answered    *)
(* 400 and stores no user.                                                 *)
(***************************************************************************)
C1_MissingUsernameIs400 ==
    /\ Answered("createUser") /\ AbsentOrEmpty(out.req.username)
           => out.res.status = 400
    /\ \A i \in 1..Len(users) : users[i].username # <<>>

(***************************************************************************)
(* C2: add-exercise (with a valid body) and the log listing answer 404     *)
(* for an id that names no stored user, whether or not the id is an        *)
(* ObjectId, and such a request is never left without an answer.           *)
(***************************************************************************)
C2_UnknownUserIs404 ==
    /\ (Answered("addExercise") \/ Answered("getLogs"))
           /\ ~NamesUser(out.req.id)
           /\ out.res.status # 400
           /\ ~StoreFailed(out.res)
           => out.res.status = 404
    /\ \A s \in Slots :
           reqs[s].pc = "rejected" /\ ~NamesUser(reqs[s].req.id)
               => reqs[s].loc.cause = "store"

(***************************************************************************)
(* C3: a log listing without from, to and limit answers, for an existing   *)
(* user, with exactly the entries of the add-exercise requests that        *)
(* succeeded for that user, each with its description, duration and date.  *)
(***************************************************************************)
C3_LogListsEveryAdd ==
    AnsweredWith("getLogs", 200)
        /\ out.req.from = NoDate /\ out.req.to = NoDate /\ out.req.limit = Absent
        => out.res.log = EntriesOf(AddedFor(CastObjectId(out.req.id).oid))

(***************************************************************************)
(* C4: a log listing without limit, whose from and to are each absent or a *)
(* calendar day, answers with exactly the user's exercises whose date lies *)
(* within the bounds, both inclusive.                                      *)
(***************************************************************************)
C4_LogIsDateRange ==
    AnsweredWith("getLogs", 200)
        /\ Parseable(out.req.from) /\ Parseable(out.req.to)
        /\ out.req.limit = Absent
        => out.res.log =
               EntriesOf(SelectSeq(AddedFor(CastObjectId(out.req.id).oid),
                   LAMBDA a : Within(a.date, out.req.from, out.req.to)))

(***************************************************************************)
(* C5: with m exercises of the user within the bounds, the log holds all m *)
(* when limit is absent, zero or no integer, at most n when limit is any   *)
(* other integer n (Min(n, m) when n is positive, none when n is           *)
(* negative), and count is the length of the log.                          *)
(***************************************************************************)
C5_LimitCapsLog ==
    AnsweredWith("getLogs", 200)
        /\ Parseable(out.req.from) /\ Parseable(out.req.to)
        => LET m == Len(SelectSeq(AddedFor(CastObjectId(out.req.id).oid),
                        LAMBDA a : Within(a.date, out.req.from, out.req.to)))
               p == ParseInt(out.req.limit)
               len == Len(out.res.log)
           IN  /\ out.res.count = len
               /\ out.req.limit = Absent \/ ~p.ok \/ p.val = 0 => len = m
               /\ out.req.limit # Absent /\ p.ok /\ p.val # 0 => len <= Max(p.val, 0)
               /\ out.req.limit # Absent /\ p.ok /\ p.val > 0 => len = Min(p.val, m)

(***************************************************************************)
(* C6: no handler is left without a response: a store call that fails is   *)
(* answered 500.                                                           *)
(***************************************************************************)
C6_FailureIsAnswered ==
    \A s \in Slots : reqs[s].pc # "rejected"

(***************************************************************************)
(* C7: the date text add-exercise returns for a date submitted as a        *)
(* calendar day, and the one the unfiltered log listing returns for it,    *)
(* re-parsed, is that calendar day, whatever the server's offset from UTC. *)
(***************************************************************************)
C7_DateRoundTrip ==
    /\ AnsweredWith("addExercise", 200) /\ out.req.date.t = "day"
           => LocalDay(ParseDateString(out.res.date, tz).ms, tz) = out.req.date.d
    /\ AnsweredWith("getLogs", 200) /\ out.req.id.kind = "lower"
           /\ out.req.from = NoDate /\ out.req.to = NoDate /\ out.req.limit = Absent
           => LET mine == AddedFor(CastObjectId(out.req.id).oid) IN
              \A i \in 1..Len(out.res.log) :
                  mine[i].day.t = "day"
                      => LocalDay(ParseDateString(out.res.log[i].date, tz).ms, tz)
                             = mine[i].day.d

(***************************************************************************)
(* C8: every stored exercise has the user_id of a stored user; an exercise *)
(* is saved only by a handler whose lookup of that user succeeded; users   *)
(* are only ever added, never removed or changed.                          *)
(***************************************************************************)
IsStoredId(user_id) ==
    \E j \in 1..Len(users) : user_id = [kind |-> "lower", n |-> users[j]._id]

OwnersExist ==
    /\ \A i \in 1..Len(exercises) : IsStoredId(exercises[i].user_id)
    /\ \A s \in Slots :
           reqs[s].op = "addExercise" /\ reqs[s].pc = "save"
               => \E j \in 1..Len(users) : users[j] = reqs[s].user

SavedAfterLookup ==
    exercises' # exercises
        => \E s \in Slots :
               /\ reqs[s].op = "addExercise" /\ reqs[s].pc = "save"
               /\ \E j \in 1..Len(users) : users[j] = reqs[s].user
               /\ Len(exercises') = Len(exercises) + 1
               /\ SubSeq(exercises', 1, Len(exercises)) = exercises
               /\ exercises'[Len(exercises')].user_id
                      = [kind |-> "lower", n |-> reqs[s].user._id]

UsersOnlyGrow ==
    /\ Len(users') >= Len(users)
    /\ SubSeq(users', 1, Len(users)) = users

C8_ExerciseOwnerExists ==
    [](OwnersExist) /\ [][SavedAfterLookup /\ UsersOnlyGrow]_vars

\* An exercise was just saved for a request whose id is in upper case, while
\* a user is being created.
C8_Witness ==
    /\ AnsweredWith("addExercise", 200)
    /\ out.req.id.kind = "upper"
    /\ exercises[Len(exercises)].user_id = [kind |-> "lower", n |-> out.req.id.n]
    /\ \E s \in Slots : reqs[s].op = "createUser"

(***************************************************************************)
(* C9: add-exercise answers 400 for a missing field exactly when           *)
(* description or duration is absent or empty; otherwise 400 for a         *)
(* duration that is no number exactly when the duration does not start     *)
(* with an integer; otherwise it accepts the request with that integer as  *)
(* the duration, zero and negative integers included, given as a text or   *)
(* as a JSON number.                                                       *)
(***************************************************************************)
\* Whether seq starts with pre.
StartsWith(seq, pre) ==
    Len(pre) <= Len(seq) /\ SubSeq(seq, 1, Len(pre)) = pre

\* The text of a duration without its leading blanks and its plus sign.
Trimmed(v) ==
    LET t == SkipSpaces(ToText(v)) IN
    IF t # <<>> /\ Head(t) = "+" THEN Tail(t) ELSE t

\* The text starts with an integer: a digit, after an optional minus sign.
StartsWithInteger(v) ==
    LET t == Trimmed(v)
        u == IF t # <<>> /\ Head(t) = "-" THEN Tail(t) ELSE t
    IN  u # <<>> /\ Head(u) \in DOMAIN DigitVal

\* n is the integer the text starts with: its digits start the text and no
\* digit follows them.
IsLeadingInteger(n, v) ==
    LET t == Trimmed(v)
        d == NumToText(n)
    IN  /\ StartsWith(t, d)
        /\ Len(t) > Len(d) => t[Len(d) + 1] \notin DOMAIN DigitVal

\* The outcome of a request's validation as the responses and the requests
\* in flight show it, against the outcome `expected` gives for its fields.
ValidatorAgrees(expected(_, _)) ==
    /\ AnsweredWith("addExercise", 400)
           => out.res.error = expected(out.req.description, out.req.duration)
    /\ Answered("addExercise") /\ out.res.status # 400
           => expected(out.req.description, out.req.duration) = "ok"
    /\ AnsweredWith("addExercise", 200)
           => IsLeadingInteger(out.res.duration, out.req.duration)
    /\ \A s \in Slots :
           reqs[s].op = "addExercise"
               => expected(reqs[s].req.description, reqs[s].req.duration) = "ok"
    /\ \A i \in 1..Len(added) :
           /\ IsLeadingInteger(exercises[i].duration, added[i].duration_in)
           /\ exercises[i].duration = added[i].duration

\* Missing means absent or empty.
ClaimedVerdict(description, duration) ==
    IF AbsentOrEmpty(description) \/ AbsentOrEmpty(duration) THEN "missing"
    ELSE IF ~StartsWithInteger(duration) THEN "nan"
    ELSE "ok"

IsZero(v) == v.t = "num" /\ v.n = 0

AmendedVerdict(description, duration) ==
    IF \/ AbsentOrEmpty(description) \/ IsZero(description)
       \/ AbsentOrEmpty(duration) \/ IsZero(duration)
    THEN "missing"
    ELSE IF ~StartsWithInteger(duration) THEN "nan"
    ELSE "ok"

HasBadBound(req) == req.from.t = "bad" \/ req.to.t = "bad"

C10_BadBoundIgnored ==
    /\ Answered("getLogs") /\ NamesUser(out.req.id) /\ HasBadBound(out.req)
           /\ ~StoreFailed(out.res)
           => /\ out.res.status = 200
              /\ out.req.limit = Absent /\ out.req.id.kind = "lower"
                     => out.res.log =
                            EntriesOf(SelectSeq(AddedFor(CastObjectId(out.req.id).oid),
                                LAMBDA a : Within(a.date, out.req.from, out.req.to)))
    /\ \A s \in Slots :
           reqs[s].op = "getLogs" /\ reqs[s].pc = "rejected"
               /\ HasBadBound(reqs[s].req)
               => reqs[s].loc.cause = "store"

====
